---- MODULE Spec2Model ----
(***************************************************************************)
(* A model of the LOL team maker: TeamMakerService (teamMaker.service.ts)  *)
(* and RiotApiService (riotApi.service.ts) with its Bottleneck limiter and *)
(* its match cache.                                                        *)
(*                                                                         *)
(* Scores (teamContribution, avgTeamScore) are counted in hundredths of a  *)
(* point: the service rounds every published score to two decimals.        *)
(***************************************************************************)
EXTENDS Integers, Sequences, FiniteSets, TLC

VARIABLES
    \* TeamMakerService
    players,      \* the PlayerStats[] handed to divideIntoTeams
    lastStep,     \* input generation: the last score step taken
    turns,        \* input generation: how often the score step changed
    laneStride,   \* input generation: how lane profiles are dealt to players
    tmStatus,     \* "input" | "threw" | "returned": divideIntoTeams' outcome
    teams,        \* the Team[] divideIntoTeams returned (<<>> before)
    reoptimized,  \* whether optimizeLaneDistribution ran again on the result
    \* RiotApiService and its limiter
    now,          \* the clock, in milliseconds
    jobs,         \* the jobs handed to limiter.schedule, in order of submission
    queue,        \* the limiter's queue: indices of jobs not yet registered
    running,      \* the limiter's count of registered, unfinished jobs
    reservoir,    \* the limiter's remaining tokens
    nextRequest,  \* the limiter's earliest time for the next job to start
    lastRefresh,  \* when the reservoir was last refilled
    matchCache,   \* this.matchCache: match id -> the job whose promise it holds (0: none)
    callers,      \* the callers of the service's fetch methods, with what each
                  \* found in the cache ("none" or the cached job's status)
    lastThrottle, \* history: the last 429 response and the first call after it
    throttled,    \* history: how many 429 responses the upstream gave
    refreshes,    \* history: how many times the reservoir was refilled
    \* RiotApiService.analyzePlayerStats, one call
    phase,        \* where the call stands: "account" | "rank" | "history" |
                  \* "matches" | "returned"
    account,      \* "pending" | "null" | "found"
    rankInfo,     \* the LeagueEntry chosen, NoRank for undefined
    matchIds,     \* how many match ids getMatchHistory gave
    matches,      \* what getMatchDetails gave for each id ("pending" before)
    requests,     \* history: the requests the call submitted, in order
    answered429,  \* history: how many of its requests were answered 429
    score,        \* the locals of step 6: tierScore and the bonuses
    stats,        \* the PlayerStats returned (NoStats before)
    onProgress,   \* the call's progress callback: "absent" | "ignores" | "fails"
    \* POST /divide-teams, one request; its playerStats array is players
    batchStatus,  \* "idle" | "rejected" | "analyzing" | "complete" | "error"
    identities,   \* the players of the request body
    completed,    \* the identities whose analysis has settled
    overtakes,    \* input generation: analyses that settled ahead of an earlier one
    started,      \* history: how many analyzePlayerStats calls were started
    events        \* history: the events written to the stream, in order

teamVars == <<players, lastStep, turns, laneStride, tmStatus, teams, reoptimized>>

fetchVars == <<now, jobs, queue, running, reservoir, nextRequest, lastRefresh,
               matchCache, callers, lastThrottle, throttled, refreshes>>

analyzeVars == <<phase, account, rankInfo, matchIds, matches, requests,
                 answered429, score, stats, onProgress>>

batchVars == <<batchStatus, identities, completed, overtakes, started, events>>

vars == <<players, lastStep, turns, laneStride, tmStatus, teams, reoptimized,
          now, jobs, queue, running, reservoir, nextRequest, lastRefresh,
          matchCache, callers, lastThrottle, throttled, refreshes,
          phase, account, rankInfo, matchIds, matches, requests,
          answered429, score, stats, onProgress,
          batchStatus, identities, completed, overtakes, started, events>>

----------------------------------------------------------------------------
(* Bounds of the model *)

MaxPlayers == 15

MaxTurns == 1

MaxCallers == 2

MaxThrottles == 1

MaxRefreshes == 1

MaxMatches == 2

MaxOvertakes == 1

MaxRetries == 100

MaxReports == 1

(* Program constants *)

TeamSize == 5

MinPlayers == 10

----------------------------------------------------------------------------
(* teamMaker.service.ts *)

lanes == <<"TOP", "JUNGLE", "MIDDLE", "BOTTOM", "UTILITY">>

LaneSet == {lanes[i] : i \in 1..Len(lanes)}

NoLanes == [l \in LaneSet |-> 0]

\* null / undefined where a PlayerStats is expected
NullPlayer == [id |-> 0, teamContribution |-> 0, laneDistribution |-> NoLanes]

IsNull(p) == p.id = 0

\* the lane profiles the generated players carry
LaneProfiles ==
    << NoLanes,
       [NoLanes EXCEPT !["TOP"] = 3],
       [NoLanes EXCEPT !["TOP"] = 2, !["JUNGLE"] = 1],
       [NoLanes EXCEPT !["MIDDLE"] = 1, !["UTILITY"] = 2],
       [NoLanes EXCEPT !["BOTTOM"] = 2, !["UTILITY"] = 2],
       [l \in LaneSet |-> 1] >>

LaneStrides == {0, 1, 5}

ScoreSteps == {-1, 0, 1}

ProfileOf(stride, id) == LaneProfiles[(((id - 1) * stride) % Len(LaneProfiles)) + 1]

\* mutant of InsertSorted: a player goes before those of equal teamContribution
RECURSIVE InsertSortedBeforeEqual(_, _)
InsertSortedBeforeEqual(sorted, p) ==
    IF sorted = <<>> THEN <<p>>
    ELSE IF Head(sorted).teamContribution > p.teamContribution
         THEN <<Head(sorted)>> \o InsertSortedBeforeEqual(Tail(sorted), p)
         ELSE <<p>> \o sorted

\* [...players].sort((a, b) => b.teamContribution - a.teamContribution):
\* a stable sort, highest teamContribution first
RECURSIVE InsertSorted(_, _)
InsertSorted(sorted, p) ==
    IF sorted = <<>> THEN <<p>>
    ELSE IF Head(sorted).teamContribution >= p.teamContribution
         THEN <<Head(sorted)>> \o InsertSorted(Tail(sorted), p)
         ELSE <<p>> \o sorted

RECURSIVE SortByContribution(_, _)
SortByContribution(ps, acc) ==
    IF ps = <<>> THEN acc
    ELSE SortByContribution(Tail(ps), InsertSorted(acc, Head(ps)))

sortedPlayers(ps) == SortByContribution(ps, <<>>)

\* draftOrder: 0..teamCount-1 then teamCount-1..0 (0-based team indices)
draftOrder(teamCount) ==
    [i \in 1..(2 * teamCount) |-> IF i <= teamCount THEN i - 1 ELSE 2 * teamCount - i]

\* mutants of teamIndex: a draft order one entry short, teams filled one after
\* the other, and a draft that never reverses
teamIndexShortCycle(teamCount, draftIndex) ==
    draftOrder(teamCount)[(draftIndex % (2 * teamCount - 1)) + 1]

teamIndexFillInTurn(teamCount, draftIndex) == draftIndex \div TeamSize

teamIndexRoundRobin(teamCount, draftIndex) == draftIndex % teamCount

\* teamIndex of the pick with 0-based draftIndex
teamIndex(teamCount, draftIndex) ==
    draftOrder(teamCount)[(draftIndex % (2 * teamCount)) + 1]

emptyTeams(teamCount) ==
    [i \in 1..teamCount |->
        [teamNumber |-> i, players |-> <<>>, avgTeamScore |-> 0,
         laneDistribution |-> [l \in LaneSet |-> NullPlayer]]]

\* for (const player of sortedPlayers) teams[teamIndex].players.push(player)
RECURSIVE snakeDraft(_, _, _)
snakeDraft(sorted, draftIndex, ts) ==
    IF draftIndex >= Len(sorted) THEN ts
    ELSE LET t == teamIndex(Len(ts), draftIndex) + 1
         IN  snakeDraft(sorted, draftIndex + 1,
                 [ts EXCEPT ![t].players = Append(@, sorted[draftIndex + 1])])

\* findBestPlayerForLane: the index in ps of the first player with the highest
\* count for lane, 0 (null) for an empty list or a highest count of 0
RECURSIVE bestIndex(_, _, _, _)
bestIndex(ps, lane, i, best) ==
    IF i > Len(ps) THEN best
    ELSE bestIndex(ps, lane, i + 1,
            IF ps[i].laneDistribution[lane] > ps[best].laneDistribution[lane]
            THEN i ELSE best)

\* mutant of findBestPlayerForLane: the last player with the highest count
RECURSIVE lastBestIndex(_, _, _, _)
lastBestIndex(ps, lane, i, best) ==
    IF i > Len(ps) THEN best
    ELSE lastBestIndex(ps, lane, i + 1,
            IF ps[i].laneDistribution[lane] >= ps[best].laneDistribution[lane]
            THEN i ELSE best)

findLastBestPlayerForLane(ps, lane) ==
    IF Len(ps) = 0 THEN 0
    ELSE LET b == lastBestIndex(ps, lane, 1, 1)
         IN  IF ps[b].laneDistribution[lane] > 0 THEN b ELSE 0

findBestPlayerForLane(ps, lane) ==
    IF Len(ps) = 0 THEN 0
    ELSE LET b == bestIndex(ps, lane, 1, 1)
         IN  IF ps[b].laneDistribution[lane] > 0 THEN b ELSE 0

\* mutant of RemoveAt: the chosen player stays in the list
RemoveAtKeeps(s, i) == s

\* unassignedPlayers.splice(unassignedPlayers.indexOf(bestPlayer), 1)
RemoveAt(s, i) == SubSeq(s, 1, i - 1) \o SubSeq(s, i + 1, Len(s))

\* first pass: each lane in order takes its best still-unassigned player
RECURSIVE firstPass(_, _)
firstPass(k, st) ==
    IF k > Len(lanes) THEN st
    ELSE LET b == findBestPlayerForLane(st.unassigned, lanes[k])
         IN  firstPass(k + 1,
                 IF b # 0
                 THEN [assignments |-> [st.assignments EXCEPT ![lanes[k]] = st.unassigned[b]],
                       unassigned |-> RemoveAt(st.unassigned, b)]
                 ELSE st)

\* second pass: the lanes still empty take the remaining players in order
RECURSIVE secondPass(_, _)
secondPass(k, st) ==
    IF k > Len(lanes) THEN st
    ELSE secondPass(k + 1,
            IF IsNull(st.assignments[lanes[k]]) /\ Len(st.unassigned) > 0
            THEN [assignments |-> [st.assignments EXCEPT ![lanes[k]] = Head(st.unassigned)],
                  unassigned |-> Tail(st.unassigned)]
            ELSE st)

lanePasses(team) ==
    secondPass(1, firstPass(1, [assignments |-> [l \in LaneSet |-> NullPlayer],
                                unassigned |-> team.players]))

\* mutant of playersAfterOptimize: the passes consume the team's own list
playersAliased(team) == lanePasses(team).unassigned

\* const unassignedPlayers = [...team.players]: the passes work on a copy, the
\* team's own player list is left as it was
playersAfterOptimize(team) == team.players

optimizeLaneDistribution(team) ==
    [team EXCEPT !.laneDistribution = lanePasses(team).assignments,
                 !.players = playersAfterOptimize(team)]

RECURSIVE SumContribution(_)
SumContribution(ps) ==
    IF ps = <<>> THEN 0 ELSE Head(ps).teamContribution + SumContribution(Tail(ps))

\* 0 / 0 in JavaScript
NaN == "NaN"

\* Math.round((totalScore / team.players.length) * 100) / 100, in hundredths;
\* Math.round rounds a half up
avgTeamScore(team) ==
    IF Len(team.players) = 0 THEN NaN
    ELSE (2 * SumContribution(team.players) + Len(team.players))
             \div (2 * Len(team.players))

\* mutant of divideThrows: the multiple-of-5 test is missing
divideThrowsBelowMinimumOnly(ps) == Len(ps) < MinPlayers

\* the guard of divideIntoTeams
divideThrows(ps) == Len(ps) < MinPlayers \/ Len(ps) % TeamSize # 0

divideIntoTeams(ps) ==
    LET teamCount == Len(ps) \div TeamSize
        drafted   == snakeDraft(sortedPlayers(ps), 0, emptyTeams(teamCount))
        laned     == [i \in 1..teamCount |-> optimizeLaneDistribution(drafted[i])]
    IN  [i \in 1..teamCount |-> [laned[i] EXCEPT !.avgTeamScore = avgTeamScore(laned[i])]]

----------------------------------------------------------------------------
(* riotApi.service.ts: the limiter's options and the 'failed' handler *)

minTime == 1200

reservoirSize == 100

reservoirRefreshAmount == 100

reservoirRefreshInterval == 120000

maxConcurrent == 1

defaultRetryAfter == 10000

\* what the model's upstream answers
Matches == {"m1", "m2"}

Statuses == {200, 404, 429}

RetryAfterHeaders == {<<>>, <<"3">>}

Latencies == {100}

Digits == <<"0", "1", "2", "3", "4", "5", "6", "7", "8", "9">>

IsDigit(c) == \E d \in 1..10 : Digits[d] = c

DigitValue(c) == (CHOOSE d \in 1..10 : Digits[d] = c) - 1

RECURSIVE parseDigits(_, _, _)
parseDigits(chars, i, acc) ==
    IF i > Len(chars) \/ ~IsDigit(chars[i]) THEN acc
    ELSE parseDigits(chars, i + 1, acc * 10 + DigitValue(chars[i]))

\* parseInt(text): the leading decimal digits, NaN when there is none
parseInt(chars) ==
    IF chars = <<>> \/ ~IsDigit(chars[1]) THEN [nan |-> TRUE, n |-> 0]
    ELSE [nan |-> FALSE, n |-> parseDigits(chars, 1, 0)]

\* an error as the handlers see it: error.response?.status (0: the error has no
\* response) and error.response.headers['retry-after'] (<<>>: absent or empty)
NoError == [status |-> 0, header |-> <<>>]

\* mutant of retryAfterMs: the header's seconds are taken as milliseconds
retryAfterUnscaled(header) ==
    IF header # <<>>
    THEN [nan |-> parseInt(header).nan, n |-> parseInt(header).n]
    ELSE [nan |-> FALSE, n |-> defaultRetryAfter]

\* retry-after in milliseconds: parseInt(header) * 1000, or 10000 without header
retryAfterMs(header) ==
    IF header # <<>>
    THEN [nan |-> parseInt(header).nan, n |-> parseInt(header).n * 1000]
    ELSE [nan |-> FALSE, n |-> defaultRetryAfter]

\* limiter.on('failed', ...): the wait before a retry, or undefined
onFailed(error) ==
    IF error.status = 429
    THEN [defined |-> TRUE, nan |-> retryAfterMs(error.header).nan,
          ms |-> retryAfterMs(error.header).n]
    ELSE [defined |-> FALSE, nan |-> FALSE, ms |-> 0]

\* Bottleneck: retryAfter = ~~retry
retryWait(retry) == IF retry.nan THEN 0 ELSE retry.ms

\* what a fetch method returns for a failure other than 429
sentinel(op) ==
    CASE op = "account" -> "null"
      [] op = "league"  -> "empty"
      [] op = "history" -> "empty"
      [] op = "match"   -> "null"

\* mutant of task, the earlier revision of the fetch methods: every failure is
\* rethrown as a new Error, which carries no response
taskWrapsErrors(op, response) ==
    IF response.status = 200
    THEN [threw |-> FALSE, value |-> "data", error |-> NoError]
    ELSE [threw |-> TRUE, value |-> "none", error |-> NoError]

\* the function a fetch method schedules, run on the upstream's response:
\* return response.data, rethrow a 429, return the sentinel for anything else
task(op, response) ==
    IF response.status = 200
    THEN [threw |-> FALSE, value |-> "data", error |-> NoError]
    ELSE IF response.status = 429
    THEN [threw |-> TRUE, value |-> "none",
          error |-> [status |-> 429, header |-> response.header]]
    ELSE [threw |-> FALSE, value |-> sentinel(op), error |-> NoError]

NoResult == [kind |-> "none", value |-> "none", status |-> 0]

newJob(op, key) ==
    [op |-> op, key |-> key, status |-> "queued", at |-> 0, attempts |-> 0,
     retryCount |-> 0, result |-> NoResult]

\* mutant of matchCacheHas: the lookup never hits
matchCacheMisses(m) == FALSE

\* this.matchCache.has(matchId)
matchCacheHas(m) == matchCache[m] # 0

\* mutant of matchCacheSet: the promise is not stored
matchCacheUnset(m, j) == matchCache

\* this.matchCache.set(matchId, matchPromise)
matchCacheSet(m, j) == [matchCache EXCEPT ![m] = j]

\* how a registered job settles on the upstream's response: resolved with what
\* the task returns, retried when the 'failed' handler names a wait, rejected
\* with the task's error otherwise
settle(job, response) ==
    LET out   == task(job.op, response)
        retry == onFailed(out.error)
    IN  IF ~out.threw
        THEN [job EXCEPT !.status = "done", !.at = 0,
                         !.result = [kind |-> "resolved", value |-> out.value,
                                     status |-> response.status]]
        ELSE IF retry.defined
        THEN [job EXCEPT !.status = "scheduled",
                         !.at = now + retryWait(retry),
                         !.retryCount = @ + 1]
        ELSE [job EXCEPT !.status = "done", !.at = 0,
                         !.result = [kind |-> "rejected", value |-> "error",
                                     status |-> response.status]]

----------------------------------------------------------------------------
(* The fetcher's state machine *)

NoThrottle == [job |-> 0, at |-> 0, header |-> <<>>, nextJob |-> 0, nextAt |-> 0]

\* a caller whose promise is settled resumes before anything else happens
ReturnDue ==
    \E c \in 1..Len(callers) :
        callers[c].state = "waiting" /\ jobs[callers[c].promise].status = "done"

FetchStart ==
    /\ now = 0
    /\ jobs = <<>>
    /\ queue = <<>>
    /\ running = 0
    /\ reservoir = reservoirSize
    /\ nextRequest = 0
    /\ lastRefresh = 0
    /\ matchCache = [m \in Matches |-> 0]
    /\ callers = <<>>
    /\ lastThrottle = NoThrottle
    /\ throttled = 0
    /\ refreshes = 0

\* getAccountByRiotId, getMatchHistory: the method
\* schedules its request and returns the job's promise
CallFetch ==
    /\ ~ReturnDue
    /\ Len(callers) < MaxCallers
    /\ \E op \in {"account", "history"} :
         /\ jobs' = Append(jobs, newJob(op, "p1"))
         /\ queue' = Append(queue, Len(jobs) + 1)
         /\ callers' = Append(callers,
                [op |-> op, key |-> "p1", promise |-> Len(jobs) + 1,
                 found |-> "none", state |-> "waiting", outcome |-> NoResult])
    /\ UNCHANGED <<now, running, reservoir, nextRequest, lastRefresh, matchCache,
                   lastThrottle, throttled, refreshes>>
    /\ UNCHANGED <<teamVars, analyzeVars, batchVars>>

\* getMatchDetails(m): the cached promise when there is one, else a newly
\* scheduled request whose promise is stored in the cache
CallGetMatchDetails ==
    /\ ~ReturnDue
    /\ Len(callers) < MaxCallers
    /\ \E m \in Matches :
         IF matchCacheHas(m)
         THEN /\ callers' = Append(callers,
                     [op |-> "match", key |-> m, promise |-> matchCache[m],
                      found |-> jobs[matchCache[m]].status,
                      state |-> "waiting", outcome |-> NoResult])
              /\ UNCHANGED <<jobs, queue, matchCache>>
         ELSE /\ jobs' = Append(jobs, newJob("match", m))
              /\ queue' = Append(queue, Len(jobs) + 1)
              /\ matchCache' = matchCacheSet(m, Len(jobs) + 1)
              /\ callers' = Append(callers,
                     [op |-> "match", key |-> m, promise |-> Len(jobs) + 1,
                      found |-> "none", state |-> "waiting", outcome |-> NoResult])
    /\ UNCHANGED <<now, running, reservoir, nextRequest, lastRefresh, lastThrottle,
                   throttled, refreshes>>
    /\ UNCHANGED <<teamVars, analyzeVars, batchVars>>

\* mutant of dequeue: the job submitted last leaves the queue first
dequeueLast(q) == [job |-> q[Len(q)], rest |-> SubSeq(q, 1, Len(q) - 1)]

\* Bottleneck's queue of one priority is first in, first out
dequeue(q) == [job |-> Head(q), rest |-> Tail(q)]

\* Bottleneck registers the first queued job when a slot and a token are free:
\* it takes both and starts the job once minTime has passed since the last start
\* mutant of CanRegister: the limiter has no maxConcurrent
CanRegisterUncapped == queue # <<>> /\ reservoir >= 1

CanRegister == queue # <<>> /\ running < maxConcurrent /\ reservoir >= 1

Register ==
    /\ ~ReturnDue
    /\ CanRegister
    /\ LET j    == dequeue(queue).job
           wait == IF nextRequest > now THEN nextRequest - now ELSE 0
       IN  /\ jobs' = [jobs EXCEPT ![j].status = "scheduled", ![j].at = now + wait]
           /\ nextRequest' = now + wait + minTime
    /\ queue' = dequeue(queue).rest
    /\ running' = running + 1
    /\ reservoir' = reservoir - 1
    /\ UNCHANGED <<now, lastRefresh, matchCache, callers, lastThrottle, throttled, refreshes>>
    /\ UNCHANGED <<teamVars, analyzeVars, batchVars>>

IsDue(j) == jobs[j].status \in {"scheduled", "executing"} /\ jobs[j].at <= now

\* the job's timer fires: the scheduled function sends its request upstream
Execute ==
    /\ ~ReturnDue
    /\ \E j \in 1..Len(jobs) :
         /\ jobs[j].status = "scheduled"
         /\ IsDue(j)
         /\ \E latency \in Latencies :
              jobs' = [jobs EXCEPT ![j].status = "executing", ![j].at = now + latency,
                                   ![j].attempts = @ + 1]
         /\ lastThrottle' =
              IF lastThrottle.job # 0 /\ lastThrottle.nextJob = 0
              THEN [lastThrottle EXCEPT !.nextJob = j, !.nextAt = now]
              ELSE lastThrottle
    /\ UNCHANGED <<now, queue, running, reservoir, nextRequest, lastRefresh,
                   matchCache, callers, throttled, refreshes>>
    /\ UNCHANGED <<teamVars, analyzeVars, batchVars>>

\* the upstream answers the request in flight and the job settles on the answer
Respond ==
    /\ ~ReturnDue
    /\ \E j \in 1..Len(jobs) :
         /\ jobs[j].status = "executing"
         /\ IsDue(j)
         /\ \E status \in Statuses :
            \E header \in (IF status = 429 THEN RetryAfterHeaders ELSE {<<>>}) :
              LET response == [status |-> status, header |-> header]
                  settled  == settle(jobs[j], response)
              IN  /\ status = 429 => throttled < MaxThrottles
                  /\ throttled' = IF status = 429 THEN throttled + 1 ELSE throttled
                  /\ jobs' = [jobs EXCEPT ![j] = settled]
                  /\ running' = IF settled.status = "done" THEN running - 1 ELSE running
                  /\ lastThrottle' =
                       IF status = 429
                       THEN [job |-> j, at |-> now, header |-> header,
                             nextJob |-> 0, nextAt |-> 0]
                       ELSE lastThrottle
    /\ UNCHANGED <<now, queue, reservoir, nextRequest, lastRefresh, matchCache,
                   callers, refreshes>>
    /\ UNCHANGED <<teamVars, analyzeVars, batchVars>>

\* the Retry-After header of an upstream that asks for one second
OneSecond == <<"1">>

\* an upstream that answers the request in flight with 429 and Retry-After: 1
\* each time: the 'failed' handler names the wait and the limiter runs the job
\* again, in its slot and without registering it anew
RespondThrottled ==
    /\ ~ReturnDue
    /\ \E j \in 1..Len(jobs) :
         /\ jobs[j].status = "executing"
         /\ IsDue(j)
         /\ jobs[j].retryCount < MaxRetries
         /\ jobs' = [jobs EXCEPT ![j] = settle(jobs[j], [status |-> 429, header |-> OneSecond])]
         /\ lastThrottle' = [job |-> j, at |-> now, header |-> OneSecond,
                             nextJob |-> 0, nextAt |-> 0]
    /\ throttled' = throttled + 1
    /\ UNCHANGED <<now, queue, running, reservoir, nextRequest, lastRefresh, matchCache,
                   callers, refreshes>>
    /\ UNCHANGED <<teamVars, analyzeVars, batchVars>>

\* a caller's await ends with the outcome of the promise it holds; callers
\* resume in the order in which they began to wait
Return ==
    /\ ReturnDue
    /\ LET c == CHOOSE c \in 1..Len(callers) :
                   /\ callers[c].state = "waiting"
                   /\ jobs[callers[c].promise].status = "done"
                   /\ \A d \in 1..(c - 1) :
                        ~(callers[d].state = "waiting"
                          /\ jobs[callers[d].promise].status = "done")
       IN  callers' = [callers EXCEPT ![c].state = "returned",
                                      ![c].outcome = jobs[callers[c].promise].result]
    /\ UNCHANGED <<now, jobs, queue, running, reservoir, nextRequest, lastRefresh,
                   matchCache, lastThrottle, throttled, refreshes>>
    /\ UNCHANGED <<teamVars, analyzeVars, batchVars>>

RefreshDue == now >= lastRefresh + reservoirRefreshInterval

\* mutant of refill: a limiter without reservoirRefreshAmount
refillNothing(r) == r

\* the heartbeat sets the reservoir to reservoirRefreshAmount
refill(r) == reservoirRefreshAmount

\* the limiter's heartbeat refills the reservoir once the interval has passed
RefreshReservoir ==
    /\ ~ReturnDue
    /\ RefreshDue
    /\ refreshes < MaxRefreshes
    /\ lastRefresh' = now
    /\ reservoir' = refill(reservoir)
    /\ refreshes' = refreshes + 1
    /\ UNCHANGED <<now, jobs, queue, running, nextRequest, matchCache, callers,
                   lastThrottle, throttled>>
    /\ UNCHANGED <<teamVars, analyzeVars, batchVars>>

\* the times at which something is due to happen
Deadlines ==
    {jobs[j].at : j \in {i \in 1..Len(jobs) :
                            jobs[i].status \in {"scheduled", "executing"}}}
    \cup (IF refreshes < MaxRefreshes THEN {lastRefresh + reservoirRefreshInterval} ELSE {})

\* time passes, up to the next deadline, when nothing is due now
Advance ==
    /\ ~ReturnDue
    /\ ~CanRegister
    /\ \A j \in 1..Len(jobs) : ~IsDue(j)
    /\ ~(RefreshDue /\ refreshes < MaxRefreshes)
    /\ Deadlines # {}
    /\ now' = CHOOSE d \in Deadlines : \A e \in Deadlines : d <= e
    /\ UNCHANGED <<jobs, queue, running, reservoir, nextRequest, lastRefresh,
                   matchCache, callers, lastThrottle, throttled, refreshes>>
    /\ UNCHANGED <<teamVars, analyzeVars, batchVars>>

ThrottledNext ==
    \/ CallFetch
    \/ Register
    \/ Execute
    \/ RespondThrottled
    \/ RefreshReservoir
    \/ Advance

FetchNext ==
    \/ CallFetch
    \/ CallGetMatchDetails
    \/ Register
    \/ Execute
    \/ Respond
    \/ Return
    \/ RefreshReservoir
    \/ Advance

----------------------------------------------------------------------------
(* riotApi.service.ts: analyzePlayerStats and calculateTierScore.  JavaScript *)
(* numbers are modelled as exact fractions [n, d] in lowest terms, d > 0.    *)

Abs(x) == IF x < 0 THEN -x ELSE x

RECURSIVE GCD(_, _)
GCD(a, b) == IF b = 0 THEN a ELSE GCD(b, a % b)

Frac(n, d) == LET g == GCD(Abs(n), d) IN [n |-> n \div g, d |-> d \div g]

Num(n) == [n |-> n, d |-> 1]

FAdd(a, b) == Frac(a.n * b.d + b.n * a.d, a.d * b.d)

FSub(a, b) == Frac(a.n * b.d - b.n * a.d, a.d * b.d)

FMul(a, b) == Frac(a.n * b.n, a.d * b.d)

\* a / b for b > 0
FDiv(a, b) == Frac(a.n * b.d, a.d * b.n)

\* a / k for an integer k > 0
FDivInt(a, k) == Frac(a.n, a.d * k)

FLess(a, b) == a.n * b.d < b.n * a.d

\* Math.min, Math.max
MathMin(a, b) == IF FLess(b, a) THEN b ELSE a

MathMax(a, b) == IF FLess(a, b) THEN b ELSE a

\* Math.round(a * scale): the nearest integer, halves upwards
MathRound(a, scale) == (2 * scale * a.n + a.d) \div (2 * a.d)

\* Math.log10 on the powers of ten
RECURSIVE MathLog10(_)
MathLog10(n) == IF n < 10 THEN 0 ELSE 1 + MathLog10(n \div 10)

TIER_SCORES ==
    [IRON |-> 0, BRONZE |-> 400, SILVER |-> 800, GOLD |-> 1200, PLATINUM |-> 1600,
     EMERALD |-> 2000, DIAMOND |-> 2400, MASTER |-> 2800, GRANDMASTER |-> 2800,
     CHALLENGER |-> 2800]

RANK_SCORES == [IV |-> 0, III |-> 100, II |-> 200, I |-> 300]

\* undefined where a LeagueEntry is expected
NoRank == [tier |-> "none", rank |-> "none", leaguePoints |-> 0, wins |-> 0, losses |-> 0]

\* x || default on numbers: the default replaces 0 as it replaces undefined
OrElse(x, default) == IF x = 0 THEN default ELSE x

calculateTierScore(entry) ==
    IF entry = NoRank THEN 1200
    ELSE LET baseScore == OrElse(TIER_SCORES[entry.tier], 1200)
         IN  IF entry.tier \in {"MASTER", "GRANDMASTER", "CHALLENGER"}
             THEN baseScore + entry.leaguePoints
             ELSE baseScore + OrElse(RANK_SCORES[entry.rank], 0) + entry.leaguePoints

\* a match as analyzePlayerStats reads it: the participant row of the player
\* (present: find gave one) and info.gameDuration; null for a failed fetch
NullMatch ==
    [kind |-> "null", present |-> FALSE, kills |-> 0, deaths |-> 0, assists |-> 0,
     visionScore |-> 0, totalMinionsKilled |-> 0, neutralMinionsKilled |-> 0,
     gameDuration |-> 0, win |-> FALSE, individualPosition |-> "", teamPosition |-> ""]

PendingMatch == [NullMatch EXCEPT !.kind = "pending"]

zeroTotals ==
    [totalKills |-> 0, totalDeaths |-> 0, totalAssists |-> 0, totalVSPM |-> Num(0),
     totalCSPM |-> Num(0), wins |-> 0, laneCount |-> NoLanes]

\* matches.forEach(...): the totals over the first i matches
RECURSIVE totalsOf(_, _)
totalsOf(ms, i) ==
    IF i = 0 THEN zeroTotals
    ELSE LET t        == totalsOf(ms, i - 1)
             m        == ms[i]
             cs       == m.totalMinionsKilled + m.neutralMinionsKilled
             position == IF m.individualPosition # "" THEN m.individualPosition
                         ELSE m.teamPosition
         IN  IF ~m.present THEN t
             ELSE [totalKills   |-> t.totalKills + m.kills,
                   totalDeaths  |-> t.totalDeaths + m.deaths,
                   totalAssists |-> t.totalAssists + m.assists,
                   totalVSPM    |-> IF m.gameDuration > 0
                                    THEN FAdd(t.totalVSPM,
                                              Frac(m.visionScore * 60, m.gameDuration))
                                    ELSE t.totalVSPM,
                   totalCSPM    |-> IF m.gameDuration > 0
                                    THEN FAdd(t.totalCSPM, Frac(cs * 60, m.gameDuration))
                                    ELSE t.totalCSPM,
                   wins         |-> IF m.win THEN t.wins + 1 ELSE t.wins,
                   laneCount    |-> IF position \in LaneSet
                                    THEN [t.laneCount EXCEPT ![position] = @ + 1]
                                    ELSE t.laneCount]

\* mutant of reduceLane, the earlier revision: laneCount[a[0]] > laneCount[b[0]] ? a : b
RECURSIVE reduceLaneStrict(_, _, _)
reduceLaneStrict(laneCount, a, i) ==
    IF i > Len(lanes) THEN a
    ELSE reduceLaneStrict(laneCount,
                          IF laneCount[a] > laneCount[lanes[i]] THEN a ELSE lanes[i], i + 1)

\* Object.entries(laneCount).reduce((a, b) => laneCount[a[0]] >= laneCount[b[0]] ? a : b)[0]
RECURSIVE reduceLane(_, _, _)
reduceLane(laneCount, a, i) ==
    IF i > Len(lanes) THEN a
    ELSE reduceLane(laneCount,
                    IF laneCount[a] >= laneCount[lanes[i]] THEN a ELSE lanes[i], i + 1)

preferredLane(laneCount) == reduceLane(laneCount, lanes[1], 2)

\* mutant of kdaBonus: the bonus is not clamped
kdaBonusUnclamped(kda) == FMul(FSub(kda, Num(3)), Num(30))

kdaBonus(kda) ==
    MathMax(Num(-150), MathMin(Num(150), FMul(FSub(kda, Num(3)), Num(30))))

\* mutant of winRateBonus: the bonus is capped at 100 points either way
winRateBonusCapped(recentWinRate) ==
    MathMax(Num(-100), MathMin(Num(100), FMul(FSub(recentWinRate, Num(50)), Num(5))))

winRateBonus(recentWinRate) == FMul(FSub(recentWinRate, Num(50)), Num(5))

activityBonus(totalSeasonGames) ==
    IF totalSeasonGames > 0
    THEN MathMin(Num(50), Num(MathLog10(totalSeasonGames) * 15))
    ELSE Num(0)

statsBonus(lane, avgVSPM, avgCSPM) ==
    IF lane = "UTILITY"
    THEN FMul(FSub(avgVSPM, Num(2)), Num(20))
    ELSE FMul(FSub(avgCSPM, Frac(13, 2)), Num(10))

NoTier == [tier |-> "none", rank |-> "none", leaguePoints |-> 0]

\* rankInfo ? { tier, rank, leaguePoints } : undefined
tierInfoOf(entry) ==
    IF entry = NoRank THEN NoTier
    ELSE [tier |-> entry.tier, rank |-> entry.rank, leaguePoints |-> entry.leaguePoints]

\* mutant of zeroStats: the failed analysis scores the 500 points of the README
zeroStatsPenalty(puuid) ==
    [puuid |-> puuid, avgKills |-> 0, avgDeaths |-> 0, avgAssists |-> 0, avgCS |-> 0,
     kda |-> 0, winRate |-> 0, preferredLane |-> "TOP", laneDistribution |-> NoLanes,
     totalGames |-> 0, teamContribution |-> 500 * 100,
     tierInfo |-> [tier |-> "none", rank |-> "none", leaguePoints |-> 0]]

\* the PlayerStats of a failed analysis; averages, kda, winRate and
\* teamContribution are in hundredths, avgCS in tenths
zeroStats(puuid) ==
    [puuid |-> puuid, avgKills |-> 0, avgDeaths |-> 0, avgAssists |-> 0, avgCS |-> 0,
     kda |-> 0, winRate |-> 0, preferredLane |-> "TOP", laneDistribution |-> NoLanes,
     totalGames |-> 0, teamContribution |-> 0, tierInfo |-> NoTier]

\* nothing returned yet
NoStats == zeroStats("none")

\* mutant of baseStats: the tier score is left out
baseStatsUnscored(entry) ==
    [zeroStats("puuid") EXCEPT !.tierInfo = tierInfoOf(entry)]

\* baseStats with teamContribution = calculateTierScore(rankInfo)
baseStats(entry) ==
    [zeroStats("puuid") EXCEPT !.tierInfo = tierInfoOf(entry),
                               !.teamContribution = calculateTierScore(entry) * 100]

NoScore ==
    [computed |-> FALSE, kda |-> Num(0), recentWinRate |-> Num(0), avgCSPM |-> Num(0),
     avgVSPM |-> Num(0), tierScore |-> 0, kdaBonus |-> Num(0), winRateBonus |-> Num(0),
     activityBonus |-> Num(0), statsBonus |-> Num(0), finalScore |-> Num(0)]

\* mutant of fetchedMatches: only the matches with the player's row are kept
playedMatches(ms) == SelectSeq(ms, LAMBDA m : m.kind = "data" /\ m.present)

\* mutant of fetchedMatches: the failed fetches are not filtered out
settledMatches(ms) == ms

\* (await Promise.all(matchPromises)).filter(m => m !== null)
fetchedMatches(ms) == SelectSeq(ms, LAMBDA m : m.kind = "data")

\* steps 5 and 6 for gamesPlayed > 0: the averages and the score
scoreOf(entry, ms) ==
    LET gamesPlayed   == Len(ms)
        t             == totalsOf(ms, Len(ms))
        avgKills      == Frac(t.totalKills, gamesPlayed)
        avgDeaths     == Frac(t.totalDeaths, gamesPlayed)
        avgAssists    == Frac(t.totalAssists, gamesPlayed)
        avgCSPM       == FDivInt(t.totalCSPM, gamesPlayed)
        avgVSPM       == FDivInt(t.totalVSPM, gamesPlayed)
        kda           == IF avgDeaths.n > 0
                         THEN FDiv(FAdd(avgKills, avgAssists), avgDeaths)
                         ELSE FAdd(avgKills, avgAssists)
        recentWinRate == Frac(t.wins * 100, gamesPlayed)
        lane          == preferredLane(t.laneCount)
        tierScore     == calculateTierScore(entry)
        seasonGames   == IF entry = NoRank THEN 0 ELSE entry.wins + entry.losses
        kb            == kdaBonus(kda)
        wb            == winRateBonus(recentWinRate)
        ab            == activityBonus(seasonGames)
        sb            == statsBonus(lane, avgVSPM, avgCSPM)
    IN  [computed |-> TRUE, kda |-> kda, recentWinRate |-> recentWinRate,
         avgCSPM |-> avgCSPM, avgVSPM |-> avgVSPM, tierScore |-> tierScore,
         kdaBonus |-> kb, winRateBonus |-> wb, activityBonus |-> ab, statsBonus |-> sb,
         finalScore |-> FAdd(FAdd(FAdd(FAdd(Num(tierScore), kb), wb), ab), sb)]

\* the PlayerStats returned for gamesPlayed > 0
statsOf(entry, ms) ==
    LET gamesPlayed == Len(ms)
        t           == totalsOf(ms, Len(ms))
        sc          == scoreOf(entry, ms)
    IN  [puuid |-> "puuid",
         avgKills |-> MathRound(Frac(t.totalKills, gamesPlayed), 100),
         avgDeaths |-> MathRound(Frac(t.totalDeaths, gamesPlayed), 100),
         avgAssists |-> MathRound(Frac(t.totalAssists, gamesPlayed), 100),
         avgCS |-> MathRound(sc.avgCSPM, 10),
         kda |-> MathRound(sc.kda, 100),
         winRate |-> MathRound(sc.recentWinRate, 100),
         preferredLane |-> preferredLane(t.laneCount),
         laneDistribution |-> t.laneCount,
         totalGames |-> IF entry = NoRank THEN 0 ELSE entry.wins + entry.losses,
         teamContribution |-> MathRound(sc.finalScore, 100),
         tierInfo |-> tierInfoOf(entry)]

----------------------------------------------------------------------------
(* The state machine of one analyzePlayerStats call *)

\* what the upstream answers to the call's requests
Tiers == DOMAIN TIER_SCORES

Ranks == DOMAIN RANK_SCORES

LeaguePoints == {60}

SeasonRecords == {<<6, 4>>, <<6000, 4000>>}

\* every tier and division with the short season, GOLD also with the long one
RankEntries ==
    {e \in {[tier |-> t, rank |-> r, leaguePoints |-> lp, wins |-> g[1], losses |-> g[2]] :
                t \in Tiers, r \in Ranks, lp \in LeaguePoints, g \in SeasonRecords} :
        e.wins = 6 \/ e.tier = "GOLD"}

FlexEntry == [tier |-> "GOLD", rank |-> "II", leaguePoints |-> 20, wins |-> 1, losses |-> 0]

MatchRecords ==
    { [kind |-> "data", present |-> TRUE, kills |-> 3, deaths |-> 2, assists |-> 3,
       visionScore |-> 30, totalMinionsKilled |-> 180, neutralMinionsKilled |-> 30,
       gameDuration |-> 1800, win |-> TRUE,
       individualPosition |-> "MIDDLE", teamPosition |-> "MIDDLE"],
      [kind |-> "data", present |-> TRUE, kills |-> 3, deaths |-> 2, assists |-> 3,
       visionScore |-> 90, totalMinionsKilled |-> 210, neutralMinionsKilled |-> 0,
       gameDuration |-> 1800, win |-> FALSE,
       individualPosition |-> "UTILITY", teamPosition |-> "UTILITY"],
      [kind |-> "data", present |-> TRUE, kills |-> 10, deaths |-> 0, assists |-> 8,
       visionScore |-> 60, totalMinionsKilled |-> 40, neutralMinionsKilled |-> 0,
       gameDuration |-> 1200, win |-> TRUE,
       individualPosition |-> "UTILITY", teamPosition |-> "UTILITY"],
      [kind |-> "data", present |-> TRUE, kills |-> 0, deaths |-> 7, assists |-> 1,
       visionScore |-> 10, totalMinionsKilled |-> 100, neutralMinionsKilled |-> 0,
       gameDuration |-> 1500, win |-> FALSE,
       individualPosition |-> "", teamPosition |-> "TOP"],
      [kind |-> "data", present |-> TRUE, kills |-> 2, deaths |-> 1, assists |-> 1,
       visionScore |-> 5, totalMinionsKilled |-> 20, neutralMinionsKilled |-> 0,
       gameDuration |-> 0, win |-> TRUE,
       individualPosition |-> "Invalid", teamPosition |-> ""],
      [NullMatch EXCEPT !.kind = "data"] }

AnalyzeStart ==
    /\ phase = "idle"
    /\ account = "pending"
    /\ rankInfo = NoRank
    /\ matchIds = 0
    /\ matches = <<>>
    /\ requests = <<>>
    /\ answered429 = 0
    /\ score = NoScore
    /\ stats = NoStats
    /\ onProgress = "absent"

\* the progress callbacks a caller can pass: none, one that returns, and one
\* that throws
Sinks == {"absent", "ignores", "fails"}

\* if (onProgress) onProgress(message): whether the statement throws
sinkThrows(sink) == sink = "fails"

\* analyzePlayerStats is called: it asks for the account
CallAnalyze ==
    /\ phase = "idle"
    /\ phase' = "account"
    /\ requests' = <<"account">>
    /\ onProgress' \in Sinks
    /\ UNCHANGED <<account, rankInfo, matchIds, matches, answered429, score, stats>>
    /\ UNCHANGED <<teamVars, fetchVars, batchVars>>

\* the requests of the call that wait for an answer
Pending ==
    CASE phase = "account" -> {"account"}
      [] phase = "rank"    -> {"league"}
      [] phase = "history" -> {"history"}
      [] phase = "matches" ->
            IF \E i \in 1..Len(matches) : matches[i].kind = "pending"
            THEN {"match"} ELSE {}
      [] OTHER -> {}

\* the upstream answers a request of the call with 429: the scheduled function
\* rethrows, the limiter runs it again and the call keeps waiting
AnswerThrottled ==
    /\ answered429 < MaxThrottles
    /\ \E op \in Pending : \E header \in RetryAfterHeaders :
         LET out == task(op, [status |-> 429, header |-> header])
         IN  out.threw /\ onFailed(out.error).defined
    /\ answered429' = answered429 + 1
    /\ UNCHANGED <<phase, account, rankInfo, matchIds, matches, requests, score, stats,
                   onProgress>>
    /\ UNCHANGED <<teamVars, fetchVars, batchVars>>

\* getAccountByRiotId settles: without an account the call returns the zero
\* PlayerStats, with one it asks for the league entries
AccountAnswered ==
    /\ phase = "account"
    /\ \E status \in Statuses \ {429} :
         LET out == task("account", [status |-> status, header |-> <<>>])
         IN  IF ~out.threw /\ out.value = "data"
             THEN /\ account' = "found"
                  /\ phase' = "rank"
                  /\ requests' = Append(requests, "league")
                  /\ stats' = stats
             ELSE /\ account' = "null"
                  /\ phase' = "returned"
                  /\ requests' = requests
                  /\ stats' = zeroStats("unknown")
    /\ UNCHANGED <<rankInfo, matchIds, matches, answered429, score, onProgress>>
    /\ UNCHANGED <<teamVars, fetchVars, batchVars>>

\* getLeagueEntriesByPuuid settles: rankInfo = soloRank || flexRank, undefined
\* after a failure; the call reports progress and asks for the match history,
\* and when the callback throws the outer catch returns the zero PlayerStats
RankAnswered ==
    /\ phase = "rank"
    /\ \E status \in Statuses \ {429} :
       \E solo \in RankEntries \cup {NoRank} : \E flex \in {NoRank, FlexEntry} :
         LET out == task("league", [status |-> status, header |-> <<>>])
         IN  rankInfo' = IF ~out.threw /\ out.value = "data"
                         THEN (IF solo # NoRank THEN solo ELSE flex)
                         ELSE NoRank
    /\ IF sinkThrows(onProgress)
       THEN /\ phase' = "returned"
            /\ requests' = requests
            /\ stats' = zeroStats("puuid")
       ELSE /\ phase' = "history"
            /\ requests' = Append(requests, "history")
            /\ stats' = stats
    /\ UNCHANGED <<account, matchIds, matches, answered429, score, onProgress>>
    /\ UNCHANGED <<teamVars, fetchVars, batchVars>>

\* getMatchHistory settles: without match ids the call returns baseStats with
\* the tier score, otherwise it asks for every match at once
HistoryAnswered ==
    /\ phase = "history"
    /\ \E status \in Statuses \ {429} : \E n \in 0..MaxMatches :
         LET out   == task("history", [status |-> status, header |-> <<>>])
             count == IF ~out.threw /\ out.value = "data" THEN n ELSE 0
         IN  /\ matchIds' = count
             /\ IF count = 0
                THEN /\ phase' = "returned"
                     /\ stats' = baseStats(rankInfo)
                     /\ UNCHANGED <<matches, requests>>
                ELSE /\ phase' = "matches"
                     /\ matches' = [i \in 1..count |-> PendingMatch]
                     /\ requests' = requests \o [i \in 1..count |-> "match"]
                     /\ stats' = stats
    /\ UNCHANGED <<account, rankInfo, answered429, score, onProgress>>
    /\ UNCHANGED <<teamVars, fetchVars, batchVars>>

\* getMatchDetails settles for one of the ids, in any order, and the call
\* reports progress: the id's entry is the match, or null when the fetch failed
\* or the callback threw
MatchAnswered ==
    /\ phase = "matches"
    /\ \E i \in 1..Len(matches) :
         /\ matches[i].kind = "pending"
         /\ \E status \in Statuses \ {429} : \E record \in MatchRecords :
              LET out == task("match", [status |-> status, header |-> <<>>])
              IN  matches' = [matches EXCEPT ![i] =
                                 IF ~out.threw /\ out.value = "data"
                                    /\ ~sinkThrows(onProgress)
                                 THEN record ELSE NullMatch]
    /\ UNCHANGED <<phase, account, rankInfo, matchIds, requests, answered429, score,
                   stats, onProgress>>
    /\ UNCHANGED <<teamVars, fetchVars, batchVars>>

\* mutant of allSettled: the first match to settle is enough
anySettled(ms) == \E i \in 1..Len(ms) : ms[i].kind # "pending"

\* await Promise.all(matchPromises): every match has settled
allSettled(ms) == \A i \in 1..Len(ms) : ms[i].kind # "pending"

\* Promise.all settles: steps 5 and 6 run and the call returns
Compute ==
    /\ phase = "matches"
    /\ allSettled(matches)
    /\ LET ms == fetchedMatches(matches)
       IN  IF Len(ms) = 0
           THEN /\ stats' = baseStats(rankInfo)
                /\ score' = score
           ELSE /\ stats' = statsOf(rankInfo, ms)
                /\ score' = scoreOf(rankInfo, ms)
    /\ phase' = "returned"
    /\ UNCHANGED <<account, rankInfo, matchIds, matches, requests, answered429,
                   onProgress>>
    /\ UNCHANGED <<teamVars, fetchVars, batchVars>>

AnalyzeNext ==
    \/ CallAnalyze
    \/ AnswerThrottled
    \/ AccountAnswered
    \/ RankAnswered
    \/ HistoryAnswered
    \/ MatchAnswered
    \/ Compute

----------------------------------------------------------------------------
(* api.routes.ts: POST /divide-teams *)

\* mutant of batchInvalid: only the minimum is checked
batchInvalidBelowMinimumOnly(n) == n < MinPlayers

\* players.length < 10 || players.length % 5 !== 0
batchInvalid(n) == n < MinPlayers \/ n % TeamSize # 0

\* the PlayerStats of an analysis as divideIntoTeams reads it
toPlayer(id, st) ==
    [id |-> id, teamContribution |-> st.teamContribution,
     laneDistribution |-> st.laneDistribution]

\* mutant of analyzeOutcome, the earlier revision of analyzePlayerStats: the
\* analysis of an identity without account throws
analyzeOutcomeRaises(id, identity) ==
    IF identity.resolvable
    THEN [threw |-> FALSE,
          stats |-> [id |-> id, teamContribution |-> identity.teamContribution,
                     laneDistribution |-> identity.laneDistribution]]
    ELSE [threw |-> TRUE, stats |-> NullPlayer]

\* await riotApiService.analyzePlayerStats(gameName, tagLine, ...): the
\* PlayerStats of the identity, the zero PlayerStats when it has no account
analyzeOutcome(id, identity) ==
    IF identity.resolvable
    THEN [threw |-> FALSE,
          stats |-> [id |-> id, teamContribution |-> identity.teamContribution,
                     laneDistribution |-> identity.laneDistribution]]
    ELSE [threw |-> FALSE, stats |-> toPlayer(id, zeroStats("unknown"))]

\* mutant of percentOf: the analyses fill the whole scale
percentOfHundred(completedCount, totalPlayers) ==
    MathRound(Frac(completedCount * 100, totalPlayers), 1)

\* Math.round((completedCount / totalPlayers) * 90)
percentOf(completedCount, totalPlayers) ==
    MathRound(Frac(completedCount * 90, totalPlayers), 1)

progressEvent(percent) == [type |-> "progress", percent |-> percent]

BatchStart ==
    /\ batchStatus = "idle"
    /\ identities = <<>>
    /\ completed = {}
    /\ overtakes = 0
    /\ started = 0
    /\ events = <<>>

\* the bodies the model posts: n identities of which the second and the tenth
\* may have no account; the others score 1200 points plus a
\* step per place in the list
Bodies ==
    {[i \in 1..n |->
        [resolvable |-> i \notin u,
         teamContribution |-> 1200 * 100 + step * i,
         laneDistribution |-> ProfileOf(1, i)]] :
        n \in 0..MaxPlayers, u \in SUBSET {2, MinPlayers}, step \in ScoreSteps}

\* the request is refused with status 400 before anything else happens
PostRejected ==
    /\ batchStatus = "idle"
    /\ \E body \in Bodies :
         /\ batchInvalid(Len(body))
         /\ identities' = body
    /\ batchStatus' = "rejected"
    /\ UNCHANGED <<completed, overtakes, started, events>>
    /\ UNCHANGED <<teamVars, fetchVars, analyzeVars>>

\* the request is accepted: the first progress event is sent and the analysis
\* of every identity is started
PostAccepted ==
    /\ batchStatus = "idle"
    /\ \E body \in Bodies :
         /\ ~batchInvalid(Len(body))
         /\ identities' = body
         /\ started' = Len(body)
    /\ batchStatus' = "analyzing"
    /\ events' = <<progressEvent(0)>>
    /\ UNCHANGED <<completed, overtakes>>
    /\ UNCHANGED <<teamVars, fetchVars, analyzeVars>>

\* the analysis of one identity settles: its PlayerStats is pushed and a
\* progress event sent, or, if it threw, only the event is sent
AnalysisSettles ==
    /\ batchStatus = "analyzing"
    /\ \E i \in (1..Len(identities)) \ completed :
         LET first          == CHOOSE j \in (1..Len(identities)) \ completed :
                                   \A k \in (1..Len(identities)) \ completed : j <= k
             ahead          == {j \in (1..Len(identities)) \ completed : j < i}
             out            == analyzeOutcome(i, identities[i])
             completedCount == Cardinality(completed)
         IN  /\ overtakes' = IF i = first THEN overtakes ELSE overtakes + 1
             /\ overtakes' <= MaxOvertakes
             /\ Cardinality(ahead) <= 1
             /\ completed' = completed \cup {i}
             /\ IF out.threw
                THEN /\ players' = players
                     /\ events' = Append(events,
                            progressEvent(percentOf(completedCount, Len(identities))))
                ELSE /\ players' = Append(players, out.stats)
                     /\ events' = Append(events,
                            progressEvent(percentOf(completedCount + 1, Len(identities))))
    /\ UNCHANGED <<batchStatus, identities, started>>
    /\ UNCHANGED <<lastStep, turns, laneStride, tmStatus, teams, reoptimized>>
    /\ UNCHANGED <<fetchVars, analyzeVars>>

\* the analysis of a resolvable identity that has not settled reports progress:
\* the route forwards it with the percent of the analyses completed so far
AnalysisReports ==
    /\ batchStatus = "analyzing"
    /\ \E i \in (1..Len(identities)) \ completed : identities[i].resolvable
    /\ Len(events) - 1 - Cardinality(completed) < MaxReports
    /\ events' = Append(events,
           progressEvent(percentOf(Cardinality(completed), Len(identities))))
    /\ UNCHANGED <<batchStatus, identities, completed, overtakes, started>>
    /\ UNCHANGED <<teamVars, fetchVars, analyzeVars>>

\* Promise.all settles: the teams are made of the PlayerStats collected and the
\* 'complete' event ends the stream, or an 'error' event does
Finish ==
    /\ batchStatus = "analyzing"
    /\ completed = 1..Len(identities)
    /\ IF Len(players) < 10
       THEN /\ events' = Append(events, [type |-> "error", percent |-> 0])
            /\ batchStatus' = "error"
            /\ teams' = teams
       ELSE IF divideThrows(players)
       THEN /\ events' = events \o <<progressEvent(95), [type |-> "error", percent |-> 0]>>
            /\ batchStatus' = "error"
            /\ teams' = teams
       ELSE /\ events' = events \o <<progressEvent(95), [type |-> "complete", percent |-> 0]>>
            /\ batchStatus' = "complete"
            /\ teams' = divideIntoTeams(players)
    /\ UNCHANGED <<identities, completed, overtakes, started>>
    /\ UNCHANGED <<players, lastStep, turns, laneStride, tmStatus, reoptimized>>
    /\ UNCHANGED <<fetchVars, analyzeVars>>

BatchNext == PostRejected \/ PostAccepted \/ AnalysisReports \/ AnalysisSettles \/ Finish

----------------------------------------------------------------------------
(* The team maker's state machine *)

TeamStart ==
    /\ players = <<>>
    /\ lastStep = 0
    /\ turns = 0
    /\ tmStatus = "input"
    /\ teams = <<>>
    /\ reoptimized = FALSE

TeamInit ==
    /\ TeamStart
    /\ laneStride \in LaneStrides
    /\ FetchStart
    /\ AnalyzeStart
    /\ BatchStart

FetchInit ==
    /\ FetchStart
    /\ TeamStart
    /\ laneStride = 0
    /\ AnalyzeStart
    /\ BatchStart

AnalyzeInit ==
    /\ AnalyzeStart
    /\ FetchStart
    /\ TeamStart
    /\ laneStride = 0
    /\ BatchStart

BatchInit ==
    /\ BatchStart
    /\ AnalyzeStart
    /\ FetchStart
    /\ TeamStart
    /\ laneStride = 0

\* the caller completes a PlayerStats and adds it to the list: its score is the
\* previous player's plus a step, its lane profile is dealt by laneStride
AddPlayer ==
    /\ tmStatus = "input"
    /\ Len(players) < MaxPlayers
    /\ \E step \in ScoreSteps :
         LET prev   == IF players = <<>> THEN 0 ELSE players[Len(players)].teamContribution
             change == IF players # <<>> /\ step # lastStep THEN 1 ELSE 0
             id     == Len(players) + 1
         IN  /\ turns + change <= MaxTurns
             /\ turns' = turns + change
             /\ lastStep' = step
             /\ players' = Append(players,
                    [id |-> id, teamContribution |-> prev + step,
                     laneDistribution |-> ProfileOf(laneStride, id)])
    /\ UNCHANGED <<laneStride, tmStatus, teams, reoptimized>>
    /\ UNCHANGED <<fetchVars, analyzeVars, batchVars>>

\* teamMakerService.divideIntoTeams(players) throws
DivideThrows ==
    /\ tmStatus = "input"
    /\ divideThrows(players)
    /\ tmStatus' = "threw"
    /\ UNCHANGED <<players, lastStep, turns, laneStride, teams, reoptimized>>
    /\ UNCHANGED <<fetchVars, analyzeVars, batchVars>>

\* teamMakerService.divideIntoTeams(players) returns the teams
DivideReturns ==
    /\ tmStatus = "input"
    /\ ~divideThrows(players)
    /\ tmStatus' = "returned"
    /\ teams' = divideIntoTeams(players)
    /\ UNCHANGED <<players, lastStep, turns, laneStride, reoptimized>>
    /\ UNCHANGED <<fetchVars, analyzeVars, batchVars>>

\* optimizeLaneDistribution runs once more on a team of the result
Reoptimize ==
    /\ tmStatus = "returned"
    /\ \E t \in 1..Len(teams) :
         teams' = [teams EXCEPT ![t] = optimizeLaneDistribution(teams[t])]
    /\ reoptimized' = TRUE
    /\ UNCHANGED <<players, lastStep, turns, laneStride, tmStatus>>
    /\ UNCHANGED <<fetchVars, analyzeVars, batchVars>>

TeamNext == AddPlayer \/ DivideThrows \/ DivideReturns \/ Reoptimize

SpecTeam == TeamInit /\ [][TeamNext]_vars

SpecFetch == FetchInit /\ [][FetchNext]_vars

\* the service late in a refill window, the clock set to 0 at that moment: 99
\* requests have been served one minTime apart, one token is left and the
\* refill is one minTime away
LateInWindow ==
    /\ now = 0
    /\ jobs = <<>>
    /\ queue = <<>>
    /\ running = 0
    /\ reservoir = 1
    /\ nextRequest = 0
    /\ lastRefresh = minTime - reservoirRefreshInterval
    /\ matchCache = [m \in Matches |-> 0]
    /\ callers = <<>>
    /\ lastThrottle = NoThrottle
    /\ throttled = 0
    /\ refreshes = 0

LiveInit ==
    /\ FetchStart \/ LateInWindow
    /\ TeamStart
    /\ laneStride = 0
    /\ AnalyzeStart
    /\ BatchStart

\* the fetch methods without a cache in front of the limiter
LiveNext ==
    \/ CallFetch
    \/ Register
    \/ Execute
    \/ Respond
    \/ Return
    \/ RefreshReservoir
    \/ Advance

\* the limiter's timers fire, a caller whose promise settled resumes, and the
\* upstream answers every request, with 429 no more than MaxThrottles times
Fairness ==
    /\ WF_vars(Register)
    /\ WF_vars(Execute)
    /\ WF_vars(Respond)
    /\ WF_vars(Return)
    /\ WF_vars(RefreshReservoir)
    /\ WF_vars(Advance)

\* the fetcher under that scheduling, fresh or with its budget nearly spent
SpecLive == LiveInit /\ [][LiveNext]_vars /\ Fairness

\* the fetcher in front of an upstream that throttles every request
SpecThrottled == FetchInit /\ [][ThrottledNext]_vars

SpecAnalyze == AnalyzeInit /\ [][AnalyzeNext]_vars

SpecBatch == BatchInit /\ [][BatchNext]_vars

----------------------------------------------------------------------------
(* Properties of divideIntoTeams *)

TeamSum(t) == SumContribution(teams[t].players)

Scores == {players[i].teamContribution : i \in 1..Len(players)}

HighestScore == CHOOSE s \in Scores : \A o \in Scores : o <= s

LowestScore == CHOOSE s \in Scores : \A o \in Scores : o >= s

\* C1: divideIntoTeams raises exactly for the inputs whose length is below 10
\* or no multiple of 5, and returns for every other input.
C1_DivideRaisesIffInvalid ==
    /\ tmStatus = "threw" => (Len(players) < 10 \/ Len(players) % 5 # 0)
    /\ tmStatus = "returned" => (Len(players) >= 10 /\ Len(players) % 5 = 0)

C1_Witness == tmStatus = "threw" /\ Len(players) = 5

\* C2: a successful divideIntoTeams returns n/5 teams numbered 1..n/5, each of
\* exactly 5 members, and every input player is a member of exactly one team.
C2_TeamsPartitionPlayers ==
    tmStatus = "returned" =>
        /\ Len(teams) * 5 = Len(players)
        /\ \A t \in 1..Len(teams) :
             /\ teams[t].teamNumber = t
             /\ Len(teams[t].players) = 5
        /\ \A p \in 1..Len(players) :
             Cardinality({tk \in (1..Len(teams)) \X (1..5) :
                            /\ tk[2] <= Len(teams[tk[1]].players)
                            /\ teams[tk[1]].players[tk[2]] = players[p]}) = 1

C2_Witness == tmStatus = "returned" /\ Len(teams) = 3 /\ Len(players) = 15

\* C7 as claimed: the sums of any two teams differ by at most the highest
\* individual teamContribution of the input.
C7_GapAtMostHighestScore ==
    tmStatus = "returned" =>
        \A a, b \in 1..Len(teams) : TeamSum(a) - TeamSum(b) <= HighestScore

\* C7 as amended: the sums of any two teams differ by at most the spread of the
\* input, its highest teamContribution minus its lowest.
C7_GapAtMostSpread ==
    tmStatus = "returned" =>
        \A a, b \in 1..Len(teams) : TeamSum(a) - TeamSum(b) <= HighestScore - LowestScore

C7_Witness ==
    /\ tmStatus = "returned"
    /\ LowestScore < 0
    /\ \E a, b \in 1..Len(teams) : TeamSum(a) - TeamSum(b) = HighestScore - LowestScore
    /\ HighestScore > LowestScore

\* the scores, sorted, form an arithmetic progression of common difference d:
\* every value from the highest down in steps of d is the score of one player
\* (of every player when d = 0)
EvenlySpread(d) ==
    /\ Len(players) >= 2
    /\ d >= 0
    /\ HighestScore - LowestScore = d * (Len(players) - 1)
    /\ \A k \in 0..(Len(players) - 1) :
         Cardinality({i \in 1..Len(players) :
                        players[i].teamContribution = HighestScore - k * d})
            = IF d = 0 THEN Len(players) ELSE 1

\* C8 as claimed: when the sorted scores form an arithmetic progression, all
\* teams have the same teamContribution sum.
C8_EvenSpreadEqualSums ==
    tmStatus = "returned" =>
        \A d \in 0..2 :
            EvenlySpread(d) => \A a, b \in 1..Len(teams) : TeamSum(a) = TeamSum(b)

\* C8 as amended: when the sorted scores form an arithmetic progression of
\* common difference d, each team's sum exceeds the next team's by exactly d,
\* so the sums are all equal only when all scores are equal.
C8_EvenSpreadStepsByDifference ==
    tmStatus = "returned" =>
        \A d \in 0..2 :
            EvenlySpread(d) =>
                \A t \in 1..(Len(teams) - 1) : TeamSum(t) - TeamSum(t + 1) = d

C8_Witness ==
    /\ tmStatus = "returned"
    /\ Len(teams) = 3
    /\ EvenlySpread(1)
    /\ TeamSum(1) - TeamSum(3) = 2

Occupied(t) == {l \in LaneSet : ~IsNull(teams[t].laneDistribution[l])}

MemberIds(t) == {teams[t].players[k].id : k \in 1..Len(teams[t].players)}

\* C9: in every team of the result no player occupies two roles, every
\* occupant is a member of the team, no more roles are occupied than the team
\* has members, and a team of 5 has its five roles filled by its five members.
C9_LaneAssignmentWellFormed ==
    tmStatus = "returned" =>
        \A t \in 1..Len(teams) :
            /\ \A l1, l2 \in Occupied(t) :
                 l1 # l2 => teams[t].laneDistribution[l1].id # teams[t].laneDistribution[l2].id
            /\ \A l \in Occupied(t) :
                 \E k \in 1..Len(teams[t].players) :
                     teams[t].players[k] = teams[t].laneDistribution[l]
            /\ Cardinality(Occupied(t)) <= Len(teams[t].players)
            /\ Len(teams[t].players) = 5 =>
                 /\ Occupied(t) = {"TOP", "JUNGLE", "MIDDLE", "BOTTOM", "UTILITY"}
                 /\ {teams[t].laneDistribution[l].id : l \in Occupied(t)} = MemberIds(t)

\* a team in which the first pass placed a player on a lane he played and the
\* second pass placed another on a lane he never played
C9_Witness ==
    /\ tmStatus = "returned"
    /\ \E t \in 1..Len(teams) : \E l1, l2 \in Occupied(t) :
         /\ teams[t].laneDistribution[l1].laneDistribution[l1] > 0
         /\ teams[t].laneDistribution[l2].laneDistribution[l2] = 0

\* C10: running optimizeLaneDistribution again on a team of the result leaves
\* every team's role-to-player assignment as the first run made it.
C10_ReoptimizeKeepsAssignment ==
    [][(tmStatus = "returned" /\ tmStatus' = "returned") =>
          \A t \in 1..Len(teams) :
              teams'[t].laneDistribution = teams[t].laneDistribution]_vars

C10_Witness ==
    /\ tmStatus = "returned"
    /\ reoptimized
    /\ \E t \in 1..Len(teams) : \E l \in Occupied(t) :
         teams[t].laneDistribution[l].laneDistribution[l] > 0

\* the place of input player i in the draft: behind every player of higher
\* teamContribution and every earlier player of equal teamContribution
DraftPlace(i) ==
    1 + Cardinality({j \in 1..Len(players) :
            \/ players[j].teamContribution > players[i].teamContribution
            \/ /\ players[j].teamContribution = players[i].teamContribution
               /\ j < i})

\* C14: divideIntoTeams drafts the players by descending teamContribution and,
\* among equal teamContribution, in input order: the pick at each place of the
\* draft is the input player whose place that is.
C14_DraftIsStableDescending ==
    tmStatus = "returned" =>
        \A i \in 1..Len(players) :
            LET place == DraftPlace(i)
                team  == teams[teamIndex(Len(teams), place - 1) + 1]
            IN  team.players[((place - 1) \div Len(teams)) + 1] = players[i]

\* a drafted input in which three players share one teamContribution and
\* another is higher
C14_Witness ==
    /\ tmStatus = "returned"
    /\ \E i, j, k \in 1..Len(players) :
         /\ i < j /\ j < k
         /\ players[i].teamContribution = players[j].teamContribution
         /\ players[j].teamContribution = players[k].teamContribution
    /\ \E i, j \in 1..Len(players) :
         i < j /\ players[i].teamContribution < players[j].teamContribution

\* the team index the snake formula gives the 0-based position i among T teams
SnakeTeam(T, i) ==
    LET r == i % (2 * T) IN IF r < T THEN r ELSE 2 * T - 1 - r

\* the input player at 0-based position i of the sorted order
Drafted(i) == CHOOSE p \in 1..Len(players) : DraftPlace(p) = i + 1

IsMember(t, p) == \E k \in 1..Len(teams[t].players) : teams[t].players[k].id = players[p].id

\* C23: the player at 0-based position i of the sorted order is on team index
\* (i mod 2T) when that is below T and on 2T-1-(i mod 2T) otherwise; the
\* top-scored player is the first member of team 1, and every team has exactly
\* one player of each successive block of T sorted players.
C23_SnakePlacement ==
    tmStatus = "returned" =>
        LET T == Len(teams)
        IN  /\ \A i \in 0..(Len(players) - 1) : IsMember(SnakeTeam(T, i) + 1, Drafted(i))
            /\ teams[1].players[1] = players[Drafted(0)]
            /\ \A b \in 0..((Len(players) \div T) - 1) : \A t \in 1..T :
                 Cardinality({i \in (b * T)..(b * T + T - 1) : IsMember(t, Drafted(i))}) = 1

\* a draft of 15 players of distinct scores given in ascending order: three
\* teams, and the draft turns round twice
C23_Witness ==
    /\ tmStatus = "returned"
    /\ Len(teams) = 3
    /\ \A i \in 1..(Len(players) - 1) :
         players[i].teamContribution < players[i + 1].teamContribution

LaneIndex(l) == CHOOSE k \in 1..Len(lanes) : lanes[k] = l

\* the members (positions in the team's list) no role holds
FreeMembers(ps, held) == {m \in 1..Len(ps) : \A l \in LaneSet : held[l] # m}

\* the free members with the highest occurrence count for the role
TopMembers(ps, held, l) ==
    {m \in FreeMembers(ps, held) :
        \A q \in FreeMembers(ps, held) :
            ps[q].laneDistribution[l] <= ps[m].laneDistribution[l]}

Earliest(S) == CHOOSE m \in S : \A q \in S : m <= q

\* pass one over the first k roles: role -> member position, 0 for empty
RECURSIVE GreedyFirst(_, _)
GreedyFirst(ps, k) ==
    IF k = 0 THEN [l \in LaneSet |-> 0]
    ELSE LET held == GreedyFirst(ps, k - 1)
             top  == TopMembers(ps, held, lanes[k])
         IN  IF top = {} \/ \A m \in top : ps[m].laneDistribution[lanes[k]] = 0
             THEN held
             ELSE [held EXCEPT ![lanes[k]] = Earliest(top)]

\* pass two: the j-th role left empty takes the j-th member left over
GreedyLanes(ps) ==
    LET first == GreedyFirst(ps, Len(lanes))
        rest  == FreeMembers(ps, first)
        emptyRank(l) == Cardinality({h \in 1..LaneIndex(l) : first[lanes[h]] = 0})
        restRank(m)  == Cardinality({q \in rest : q <= m})
    IN  [l \in LaneSet |->
            IF first[l] # 0 THEN first[l]
            ELSE IF emptyRank(l) > Cardinality(rest) THEN 0
                 ELSE CHOOSE m \in rest : restRank(m) = emptyRank(l)]

\* C24: every team's lane assignment is the two-pass greedy result: each role
\* in the order TOP, JUNGLE, MIDDLE, BOTTOM, UTILITY takes the free member with
\* the highest count for it (the earliest on ties) unless that count is 0, then
\* the roles left empty take the members left over, both in order.
C24_LanesAreTwoPassGreedy ==
    tmStatus = "returned" =>
        \A t \in 1..Len(teams) : \A l \in LaneSet :
            LET g == GreedyLanes(teams[t].players)[l]
            IN  IF g = 0 THEN IsNull(teams[t].laneDistribution[l])
                ELSE teams[t].laneDistribution[l] = teams[t].players[g]

\* a team in which a role of pass one had two free members of the same highest
\* positive count, and another role was filled only in pass two
C24_Witness ==
    /\ tmStatus = "returned"
    /\ \E t \in 1..Len(teams) :
         LET ps == teams[t].players
         IN  /\ \E k \in 1..Len(lanes) :
                  LET top == TopMembers(ps, GreedyFirst(ps, k - 1), lanes[k])
                  IN  /\ Cardinality(top) >= 2
                      /\ \E m \in top : ps[m].laneDistribution[lanes[k]] > 0
             /\ \E l \in LaneSet : GreedyFirst(ps, Len(lanes))[l] = 0

----------------------------------------------------------------------------
(* Properties of the fetcher *)

IsMatchJob(j, m) == jobs[j].op = "match" /\ jobs[j].key = m

MatchJobs(m) == {j \in 1..Len(jobs) : IsMatchJob(j, m)}

MatchCallers(m) ==
    {c \in 1..Len(callers) : callers[c].op = "match" /\ callers[c].key = m}

Unfinished(j) == jobs[j].status \in {"queued", "scheduled", "executing"}

RECURSIVE CallsUpTo(_, _)
CallsUpTo(m, n) ==
    IF n = 0 THEN 0
    ELSE CallsUpTo(m, n - 1) + (IF IsMatchJob(n, m) THEN jobs[n].attempts ELSE 0)

\* the upstream match-detail calls issued so far for the identifier
UpstreamCalls(m) == CallsUpTo(m, Len(jobs))

RECURSIVE ThrottlesUpTo(_, _)
ThrottlesUpTo(m, n) ==
    IF n = 0 THEN 0
    ELSE ThrottlesUpTo(m, n - 1) + (IF IsMatchJob(n, m) THEN jobs[n].retryCount ELSE 0)

\* the 429 responses received so far by the calls for the identifier
Throttles(m) == ThrottlesUpTo(m, Len(jobs))

AllReturned(m) ==
    /\ MatchCallers(m) # {}
    /\ \A c \in MatchCallers(m) : callers[c].state = "returned"

\* C3 as stated: however many callers ask for one match identifier, exactly one
\* upstream match-detail call is issued for it.
C3_ExactlyOneUpstreamCall ==
    \A m \in Matches :
        /\ UpstreamCalls(m) <= 1
        /\ AllReturned(m) => UpstreamCalls(m) = 1

\* C3: however many callers ask for one match identifier, exactly one fetch is
\* scheduled for it, and that fetch issues one upstream call plus one more for
\* each 429 response it receives.
C3_OneFetchPerIdentifier ==
    \A m \in Matches :
        /\ MatchCallers(m) # {} => Cardinality(MatchJobs(m)) = 1
        /\ UpstreamCalls(m) <= 1 + Throttles(m)
        /\ AllReturned(m) => UpstreamCalls(m) = 1 + Throttles(m)

\* two callers wait for one identifier whose only fetch, throttled once, has
\* made its second upstream call
C3_Witness ==
    \E m \in Matches :
        /\ Cardinality({c \in MatchCallers(m) : callers[c].state = "waiting"}) >= 2
        /\ UpstreamCalls(m) = 2

\* C4: there is at most one unfinished match-detail fetch per identifier; the
\* first caller has stored its promise in the cache and every caller of the
\* identifier holds that same promise.
C4_AtMostOneFetchInFlight ==
    \A m \in Matches :
        /\ Cardinality({j \in MatchJobs(m) : Unfinished(j)}) <= 1
        /\ \A c \in MatchCallers(m) :
             /\ matchCacheHas(m)
             /\ callers[c].promise = matchCache[m]
             /\ IsMatchJob(callers[c].promise, m)

\* a second caller joined the fetch of the first while it was unfinished
C4_Witness ==
    \E m \in Matches :
        /\ Cardinality({c \in MatchCallers(m) : callers[c].state = "waiting"}) >= 2
        /\ Unfinished(matchCache[m])

\* C5: no caller's fetch ends on a 429 response, neither as a value nor as an
\* error: the job that received the 429 is run again and the caller gets what a
\* later, unthrottled attempt gave.
C5_ThrottleNeverSurfaces ==
    /\ \A j \in 1..Len(jobs) :
         jobs[j].status = "done" =>
            /\ jobs[j].result.status # 429
            /\ jobs[j].result.kind = "resolved"
    /\ \A c \in 1..Len(callers) :
         callers[c].state = "returned" =>
            /\ callers[c].outcome.status # 429
            /\ callers[c].outcome.kind = "resolved"
    /\ lastThrottle.job # 0 => jobs[lastThrottle.job].retryCount >= 1

\* a caller got the outcome of a fetch that had been throttled and run again
C5_Witness ==
    \E c \in 1..Len(callers) :
        /\ callers[c].state = "returned"
        /\ jobs[callers[c].promise].retryCount >= 1
        /\ jobs[callers[c].promise].attempts >= 2

\* the hint of a 429 response in milliseconds: its retry-after seconds, 10
\* seconds when it has none
HintMs(header) == IF header = <<>> THEN 10 * 1000 ELSE parseDigits(header, 1, 0) * 1000

\* C6: after a 429 response with a hint of h seconds (10 when absent) no
\* upstream call is made before h seconds have passed; the first call made
\* then is the throttled request again, and a request that was throttled ends
\* resolved, on a response that is no 429.
C6_QuietUntilHintElapsed ==
    /\ lastThrottle.nextJob # 0 =>
         /\ lastThrottle.nextJob = lastThrottle.job
         /\ lastThrottle.nextAt >= lastThrottle.at + HintMs(lastThrottle.header)
    /\ (lastThrottle.job # 0 /\ lastThrottle.nextJob = 0) =>
         /\ \A j \in 1..Len(jobs) : jobs[j].status # "executing"
         /\ now <= lastThrottle.at + HintMs(lastThrottle.header)
    /\ \A j \in 1..Len(jobs) :
         (jobs[j].status = "done" /\ jobs[j].retryCount >= 1) =>
            /\ jobs[j].result.kind = "resolved"
            /\ jobs[j].result.status # 429

\* a 429 with retry-after 3 was followed, 3 seconds later, by the same request,
\* which resolved for its caller while a second request had not been sent yet
C6_Witness ==
    /\ lastThrottle.header = <<"3">>
    /\ lastThrottle.nextJob = lastThrottle.job
    /\ lastThrottle.nextAt = lastThrottle.at + 3000
    /\ lastThrottle.job # 0
    /\ jobs[lastThrottle.job].status = "done"
    /\ \E c \in 1..Len(callers) :
         callers[c].promise = lastThrottle.job /\ callers[c].state = "returned"
    /\ \E j \in 1..Len(jobs) : j # lastThrottle.job /\ jobs[j].attempts = 0

\* the cached fetch of the identifier ended in failure: its promise holds null
FetchFailed(m) ==
    /\ matchCache[m] # 0
    /\ jobs[matchCache[m]].status = "done"
    /\ jobs[matchCache[m]].result.value # "data"

\* the cached fetch of the identifier ended with the match record
Fetched(m) ==
    /\ matchCache[m] # 0
    /\ jobs[matchCache[m]].status = "done"
    /\ jobs[matchCache[m]].result.value = "data"

\* C19 as stated: a match-detail fetch that failed for good is not left in the
\* cache, and a caller that asks for the identifier afterwards gets a fetch of
\* its own.
C19_FailedEntryRemoved ==
    /\ \A m \in Matches : ~FetchFailed(m)
    /\ \A c \in 1..Len(callers) :
         callers[c].op = "match" => callers[c].found # "done"
            \/ jobs[callers[c].promise].result.value = "data"

\* C20: once the record of an identifier is in the cache, the entry and its
\* record stay as they are, no further upstream call is made for the
\* identifier, and a caller that asks for it gets the cached promise.
C20_FetchedEntryRetained ==
    [][\A m \in Matches :
          Fetched(m) =>
             /\ matchCache'[m] = matchCache[m]
             /\ jobs'[matchCache[m]] = jobs[matchCache[m]]
             /\ MatchJobs(m)' = MatchJobs(m)
             /\ UpstreamCalls(m)' = UpstreamCalls(m)
             /\ \A c \in MatchCallers(m)' :
                  /\ callers'[c].promise = matchCache[m]
                  /\ callers'[c].state = "returned" =>
                       callers'[c].outcome = jobs[matchCache[m]].result]_vars

\* a caller asked for an identifier whose record was already in the cache and
\* got the record, with one upstream call made for the identifier in all
C20_Witness ==
    \E c \in 1..Len(callers) :
        /\ callers[c].op = "match"
        /\ callers[c].found = "done"
        /\ callers[c].state = "returned"
        /\ callers[c].outcome.value = "data"
        /\ UpstreamCalls(callers[c].key) = 1

C30_DispatchInArrivalOrder ==
    \A i, j \in 1..Len(jobs) :
        (i < j /\ jobs[j].attempts >= 1) => jobs[i].attempts >= 1

\* two requests were queued together and both have been sent upstream
C30_Witness ==
    /\ Len(jobs) >= 2
    /\ jobs[1].attempts >= 1
    /\ jobs[2].attempts >= 1
    /\ Len(callers) >= 2
    /\ callers[2].found = "none"

RECURSIVE AttemptsUpTo(_)
AttemptsUpTo(j) == IF j = 0 THEN 0 ELSE jobs[j].attempts + AttemptsUpTo(j - 1)

\* the requests sent upstream so far, first attempts and retries
Attempts == AttemptsUpTo(Len(jobs))

\* C21 as stated: no more than 100 requests, first attempts and retries
\* together, are sent upstream within one refill window of 120 seconds; here
\* for the window that begins with the service.
C21_WindowBudget ==
    now < reservoirRefreshInterval => Attempts <= 100

\* C31 as stated: every request sent upstream, a retry after a 429 included,
\* takes one token of the reservoir; here before its first refill, where the
\* tokens taken are what the reservoir has lost.
C31_EveryAttemptTakesAToken ==
    refreshes = 0 => reservoirSize - reservoir >= Attempts

\* the jobs that hold a slot of the limiter, and those with a request upstream
SlotHolders == {j \in 1..Len(jobs) : jobs[j].status \in {"scheduled", "executing"}}

InFlight == {j \in 1..Len(jobs) : jobs[j].status = "executing"}

----------------------------------------------------------------------------
(* Properties of analyzePlayerStats *)

AveragesAreZero(st) ==
    /\ st.avgKills = 0 /\ st.avgDeaths = 0 /\ st.avgAssists = 0 /\ st.avgCS = 0
    /\ st.kda = 0 /\ st.winRate = 0
    /\ \A l \in LaneSet : st.laneDistribution[l] = 0

RawKdaBonus == FMul(FSub(score.kda, Num(3)), Num(30))

\* C15: kdaBonus is (kda - 3.0) * 30 within [-150, 150], exactly 150 when that
\* value is above 150 and exactly -150 when it is below -150.
C15_KdaBonusClamped ==
    score.computed =>
        score.kdaBonus = IF FLess(Num(150), RawKdaBonus) THEN Num(150)
                         ELSE IF FLess(RawKdaBonus, Num(-150)) THEN Num(-150)
                         ELSE RawKdaBonus

\* a player whose raw value is above 150 (18 kills and assists, no death)
C15_Witness ==
    /\ score.computed
    /\ FLess(Num(150), RawKdaBonus)
    /\ score.kdaBonus = Num(150)

TierBase ==
    [IRON |-> 0, BRONZE |-> 400, SILVER |-> 800, GOLD |-> 1200, PLATINUM |-> 1600,
     EMERALD |-> 2000, DIAMOND |-> 2400]

DivisionOffset == [IV |-> 0, III |-> 100, II |-> 200, I |-> 300]

TableTierScore(entry) ==
    IF entry.tier \in DOMAIN TierBase
    THEN TierBase[entry.tier] + DivisionOffset[entry.rank] + entry.leaguePoints
    ELSE 2800 + entry.leaguePoints

\* the tier score a returned call has used
UsedTierScore ==
    IF score.computed THEN Num(score.tierScore) ELSE Frac(stats.teamContribution, 100)

\* C16 as stated: the tier score of a ranked player is base + division offset
\* + league points below MASTER, with bases IRON 0 ... DIAMOND 2400, and 2800 +
\* league points from MASTER upwards.
C16_TierScoreTable ==
    (phase = "returned" /\ account = "found" /\ rankInfo # NoRank) =>
        UsedTierScore = Num(TableTierScore(rankInfo))

\* the sum of the five parts, the bonuses computed from the averages as the
\* claim gives them
StatedWinRateBonus == FMul(FSub(score.recentWinRate, Num(50)), Num(5))

StatedRoleStatsBonus ==
    IF stats.preferredLane = "UTILITY"
    THEN FMul(FSub(score.avgVSPM, Num(2)), Num(20))
    ELSE FMul(FSub(score.avgCSPM, Frac(13, 2)), Num(10))

StatedSum ==
    FAdd(FAdd(FAdd(FAdd(Num(score.tierScore), score.kdaBonus), StatedWinRateBonus),
              score.activityBonus), StatedRoleStatsBonus)

IsStatedExample ==
    /\ score.computed
    /\ score.kda = Num(3)
    /\ score.recentWinRate = Num(50)
    /\ score.avgCSPM = Num(7)
    /\ stats.preferredLane # "UTILITY"

\* C17 as stated: teamContribution is the sum of tierScore, kdaBonus,
\* winRateBonus, activityBonus and roleStatsBonus.
C17_ContributionIsSum ==
    score.computed => Frac(stats.teamContribution, 100) = StatedSum

\* C17: teamContribution is the sum of tierScore, kdaBonus, winRateBonus,
\* activityBonus and roleStatsBonus rounded to two decimals, with winRateBonus
\* = (winRate - 50) * 5 and roleStatsBonus from vision per minute for UTILITY
\* and from CS per minute otherwise; KDA 3.0, win rate 50% and CS/min 7.0 off
\* UTILITY give the bonuses 0, 0 and 5.
C17_ContributionIsRoundedSum ==
    score.computed =>
        /\ score.winRateBonus = StatedWinRateBonus
        /\ score.statsBonus = StatedRoleStatsBonus
        /\ stats.teamContribution = MathRound(StatedSum, 100)
        /\ IsStatedExample =>
             /\ score.kdaBonus = Num(0)
             /\ score.winRateBonus = Num(0)
             /\ score.statsBonus = Num(5)

\* the player of the example
C17_Witness == IsStatedExample

\* the call has asked for the match list
HistoryRequested == \E k \in 1..Len(requests) : requests[k] = "history"

\* C18: a resolved player whose match list gave no ids, or without a single
\* match fetched, gets teamContribution = the tier score, 1200 without a rank
\* entry, and zero averages and role counts.
C18_NoMatchesGivesTierScore ==
    (phase = "returned" /\ account = "found" /\ HistoryRequested
        /\ (matchIds = 0 \/ fetchedMatches(matches) = <<>>)) =>
        /\ stats.teamContribution = calculateTierScore(rankInfo) * 100
        /\ rankInfo = NoRank => stats.teamContribution = 1200 * 100
        /\ AveragesAreZero(stats)
        /\ stats.totalGames = 0
        /\ stats.puuid = "puuid"

\* an unranked player whose match fetches all failed
C18_Witness ==
    /\ phase = "returned"
    /\ account = "found"
    /\ rankInfo = NoRank
    /\ matchIds = MaxMatches
    /\ fetchedMatches(matches) = <<>>
    /\ stats.teamContribution = 1200 * 100

\* C22 as stated: a player whose account lookup fails gets the penalty score
\* of 500 points.
C22_UnresolvedScoresPenalty ==
    (phase = "returned" /\ account = "null") => stats.teamContribution = 500 * 100

RequestCount(op) == Cardinality({k \in 1..Len(requests) : requests[k] = op})

\* C25: the call's requests are account, rank, match list and then the match
\* details; the rank request follows the account's answer, the match list
\* request the rank's answer, the match detail requests the match list's
\* answer, and the call returns only when no match detail is outstanding.
C25_RequestsFollowResponses ==
    /\ \A k \in 1..Len(requests) :
         requests[k] = IF k = 1 THEN "account"
                       ELSE IF k = 2 THEN "league"
                       ELSE IF k = 3 THEN "history" ELSE "match"
    /\ RequestCount("league") > 0 => account = "found"
    /\ RequestCount("history") > 0 => phase \in {"history", "matches", "returned"}
    /\ RequestCount("match") > 0 =>
         /\ phase \in {"matches", "returned"}
         /\ RequestCount("match") = matchIds
    /\ phase = "returned" =>
         \A i \in 1..Len(matches) : matches[i].kind # "pending"

\* a call that returned after MaxMatches match details, one of them failed, and
\* a throttled request
C25_Witness ==
    /\ phase = "returned"
    /\ RequestCount("match") = MaxMatches
    /\ answered429 >= 1
    /\ \E i, k \in 1..Len(matches) :
         matches[i].kind = "null" /\ matches[k].kind = "data"

\* C26 as stated: a progress callback that fails changes neither the requests
\* of the call nor its result; whatever the callback, a resolved player's call
\* asks for the match list and returns the tier of the rank entry it was given.
C26_SinkNeverChangesOutcome ==
    (phase = "returned" /\ account = "found") =>
        /\ HistoryRequested
        /\ stats.tierInfo = tierInfoOf(rankInfo)

\* the ids whose match details were fetched
FetchedIds == {i \in 1..Len(matches) : matches[i].kind = "data"}

RECURSIVE KillsIn(_)
KillsIn(S) ==
    IF S = {} THEN 0
    ELSE LET i == CHOOSE i \in S : TRUE IN matches[i].kills + KillsIn(S \ {i})

WinsIn(S) == Cardinality({i \in S : matches[i].win})

\* C27: a call some of whose match detail fetches failed still returns the
\* player's PlayerStats, and its averages are taken over exactly the matches
\* that were fetched: kill average and win rate divide by their number.
C27_FailedMatchesLeftOut ==
    (phase = "returned" /\ account = "found" /\ matchIds > 0) =>
        /\ stats.puuid = "puuid"
        /\ IF FetchedIds = {}
           THEN AveragesAreZero(stats)
           ELSE /\ stats.avgKills =
                     MathRound(Frac(KillsIn(FetchedIds), Cardinality(FetchedIds)), 100)
                /\ stats.winRate =
                     MathRound(Frac(WinsIn(FetchedIds) * 100, Cardinality(FetchedIds)), 100)

\* a call with one match fetch failed and one fetched match with kills, a win
C27_Witness ==
    /\ phase = "returned"
    /\ \E i, k \in 1..Len(matches) :
         /\ matches[i].kind = "null"
         /\ matches[k].kind = "data" /\ matches[k].kills > 0 /\ matches[k].win

\* C33: the preferredLane of a returned PlayerStats is a role of the highest
\* occurrence count, and every role before it in the order TOP, JUNGLE, MIDDLE,
\* BOTTOM, UTILITY has a lower count; it is TOP when all counts are 0.
C33_PreferredLaneIsFirstMaximum ==
    phase = "returned" =>
        LET counts == stats.laneDistribution
            lane   == stats.preferredLane
        IN  /\ \A l \in LaneSet :
                 /\ counts[l] <= counts[lane]
                 /\ LaneIndex(l) < LaneIndex(lane) => counts[l] < counts[lane]
            /\ (\A l \in LaneSet : counts[l] = 0) => lane = "TOP"

\* a player whose matches were played on two roles equally often, neither TOP
C33_Witness ==
    /\ phase = "returned"
    /\ score.computed
    /\ stats.laneDistribution["TOP"] = 0
    /\ \E l1, l2 \in LaneSet :
         /\ l1 # l2
         /\ stats.laneDistribution[l1] > 0
         /\ stats.laneDistribution[l1] = stats.laneDistribution[l2]
         /\ stats.preferredLane = l1

\* C36: for a player with a fetched match the win rate divides the wins by
\* the number of fetched matches, those without the player's row or with a
\* duration of 0 included; so the wins do not exceed the divisor, winRate lies
\* in 0..100 and winRateBonus in -250..250.
C36_WinRateOverFetchedMatches ==
    (phase = "returned" /\ score.computed) =>
        /\ FetchedIds # {}
        /\ score.recentWinRate =
              Frac(WinsIn(FetchedIds) * 100, Cardinality(FetchedIds))
        /\ WinsIn(FetchedIds) <= Cardinality(FetchedIds)
        /\ 0 <= stats.winRate /\ stats.winRate <= 100 * 100
        /\ ~FLess(score.winRateBonus, Num(-250))
        /\ ~FLess(Num(250), score.winRateBonus)

\* a player with two fetched matches, one without his row and one, a win, of
\* duration 0: the win rate is 50
C36_Witness ==
    /\ phase = "returned"
    /\ score.computed
    /\ \E i, k \in FetchedIds :
         /\ ~matches[i].present
         /\ matches[k].present /\ matches[k].gameDuration = 0 /\ matches[k].win
    /\ stats.winRate = 50 * 100

----------------------------------------------------------------------------
(* Properties of POST /divide-teams *)

Unresolvable == {i \in 1..Len(identities) : ~identities[i].resolvable}

\* the teams on which the player of identity i sits
TeamsOf(i) ==
    {t \in 1..Len(teams) :
        \E k \in 1..Len(teams[t].players) : teams[t].players[k].id = i}

PlayerOf(i) ==
    LET t == CHOOSE t \in TeamsOf(i) : TRUE
        k == CHOOSE k \in 1..Len(teams[t].players) : teams[t].players[k].id = i
    IN  teams[t].players[k]

C13_InvalidBatchFailsAtOnce ==
    /\ batchStatus # "idle" =>
         (batchStatus = "rejected" <=>
             (Len(identities) < 10 \/ Len(identities) % 5 # 0))
    /\ batchStatus = "rejected" =>
         /\ started = 0
         /\ events = <<>>
         /\ completed = {}
         /\ players = <<>>
         /\ teams = <<>>

\* a refused request of 12 identities
C13_Witness ==
    /\ batchStatus = "rejected"
    /\ Len(identities) = 12

\* the PlayerStats of the identities in the order the caller supplied them
SuppliedOrder ==
    [i \in 1..Len(identities) |-> analyzeOutcome(i, identities[i]).stats]

\* C29 as stated: the teams of a batch are those of the players taken in the
\* order of the request body, whatever the order in which the analyses
\* settled; players of equal teamContribution are drafted in the body's order.
C29_TiesDraftedInSuppliedOrder ==
    batchStatus = "complete" => teams = divideIntoTeams(SuppliedOrder)

IsTerminal(e) == e.type \in {"complete", "error"}

\* C34: an accepted batch writes no terminal event while it analyses and ends
\* with exactly one, the last event of the stream; the percent values of the
\* progress events never decrease, none exceeds 90 but that of the balancing
\* step, and that one is written when every requested player is counted.
C34_EventStreamWellFormed ==
    /\ batchStatus = "analyzing" =>
         \A k \in 1..Len(events) : ~IsTerminal(events[k])
    /\ batchStatus \in {"complete", "error"} =>
         /\ events[Len(events)].type = batchStatus
         /\ \A k \in 1..(Len(events) - 1) : ~IsTerminal(events[k])
    /\ \A k \in 1..(Len(events) - 1) :
         ~IsTerminal(events[k + 1]) => events[k].percent <= events[k + 1].percent
    /\ \A k \in 1..Len(events) :
         (events[k].type = "progress" /\ events[k].percent > 90) =>
             /\ events[k].percent = 95
             /\ k = Len(events) - 1
             /\ Cardinality(completed) = Len(identities)

\* a complete batch of 15 whose stream holds a forwarded progress report and
\* whose analyses did not all settle in the order of the body
C34_Witness ==
    /\ batchStatus = "complete"
    /\ Len(identities) = 15
    /\ overtakes >= 1
    /\ Len(events) = Len(identities) + MaxReports + 3

====
